---- MODULE Spec2Model ----
(***************************************************************************)
(* Greenly access control: the token validation middleware                 *)
(* (authentication.check) and the authorization middleware (check) of      *)
(* server/lib, as a state machine over one request slot.                   *)
(*                                                                         *)
(* A request is a record: the route template it matched, its method, its   *)
(* route parameters (strings), its body, the bearer token, req.user, and   *)
(* the position of the middleware chain.  The awaits of the code           *)
(* (getUserByID, checkUserOrderRelationship, checkUserItemRelationship)    *)
(* are the points where an action ends and another one starts.             *)
(***************************************************************************)
EXTENDS Integers, Sequences, FiniteSets, TLC

VARIABLES
    store,      \* the identity store: user id -> [type, Address]
    user,       \* the undeclared global `user` assigned by getUserByID
    rq,         \* request slot -> request record (or Idle)
    outdated    \* history: the record an earlier request fetched for a user
                \* whose type updateUser changed afterwards

vars == <<store, user, rq, outdated>>

----------------------------------------------------------------------------
(* Bounds *)

\* user ids of the identity store are 5..MaxUserId
MaxUserId == 6

----------------------------------------------------------------------------
(* Values *)

Roles == {"CONSUMER", "SUPPLIER", "TRANSPORTER", "ADMINISTRATOR"}

Methods == {"GET", "POST", "PUT", "DELETE"}

UserIds == 5..MaxUserId

\* the id a token may carry although the store holds no such user
DeletedUserId == MaxUserId + 1

\* JavaScript's undefined (req.user before authentication) and null
undefined == [undefined |-> TRUE]
null == [null |-> TRUE]

Digit == <<"0", "1", "2", "3", "4", "5", "6", "7", "8", "9">>

\* the decimal string of a number below 100, as a sequence of characters
DecimalString(n) == IF n < 10 THEN <<Digit[n + 1]>>
               ELSE <<Digit[(n \div 10) + 1], Digit[(n % 10) + 1]>>

\* the address rows of the store: user 5 owns 9 and 12, user 6 owns 99
AddressRows(id) == IF id = 5 THEN <<[id |-> 9], [id |-> 12]>>
                   ELSE IF id = 6 THEN <<[id |-> 99]>>
                   ELSE <<>>

\* route parameter strings a client may send
UserIdStrings == {DecimalString(i) : i \in UserIds} \cup {<<"0", "5">>, <<"x">>}
AddressIdStrings == {DecimalString(9), DecimalString(12), DecimalString(99)}

----------------------------------------------------------------------------
(* JavaScript conversions used by the comparisons of check *)

DigitValue(c) == CHOOSE d \in 0..9 : Digit[d + 1] = c

IsDigit(c) == \E d \in 0..9 : Digit[d + 1] = c

\* Number(s) is NaN unless s is a string of decimal digits
IsNaN(s) == \E i \in 1..Len(s) : ~IsDigit(s[i])

RECURSIVE DecimalValue(_)
DecimalValue(s) == IF s = <<>> THEN 0
                   ELSE 10 * DecimalValue(SubSeq(s, 1, Len(s) - 1))
                        + DigitValue(s[Len(s)])

\* Number(s) for a string s: the empty string is 0, NaN is kept apart
Number(s) == IF IsNaN(s) THEN [NaN |-> TRUE] ELSE [value |-> DecimalValue(s)]

\* string == number: the string is converted with Number, NaN equals nothing
LooseEquals(s, n) == Number(s) = [value |-> n]

\* Array.prototype.includes over a list of numbers
includes(list, x) == \E i \in 1..Len(list) : [value |-> list[i]] = x

\* req.user.Address.map((addressObject) => addressObject.id)
AddressIDs(u) == [i \in 1..Len(u.Address) |-> u.Address[i].id]

----------------------------------------------------------------------------
(* The route table of check *)

resourceIdentification ==
    [t \in {"/user/", "/user/:userId", "/user/:userId/addresses",
            "/user/:userId/addresses/:addressId",
            "/user/:userId/notifications",
            "/user/:userId/notifications/:notificationId",
            "/user/:userId/orders", "/store/products/:productId",
            "/store/orders", "/store/orders/:orderId",
            "/store/orders/:orderId/:itemId", "/store/categories",
            "/store/categories/:categoryId", "/user/:userId/cart",
            "/user/:userId/cart/:index", "/user/:userId/wishlist",
            "/user/:userId/wishlist/:productId"} |->
        CASE t = "/user/"                                      -> "ALL_USERS"
          [] t = "/user/:userId"                               -> "SINGLE_USER"
          [] t = "/user/:userId/addresses"                     -> "ALL_ADDRESSES"
          [] t = "/user/:userId/addresses/:addressId"          -> "SINGLE_ADDRESS"
          [] t = "/user/:userId/notifications"                 -> "ALL_NOTIFICATIONS"
          [] t = "/user/:userId/notifications/:notificationId" -> "SINGLE_NOTIFICATION"
          [] t = "/user/:userId/orders"                        -> "ALL_USER_ORDERS"
          [] t = "/store/products/:productId"                  -> "SINGLE_PRODUCT"
          [] t = "/store/orders"                               -> "ALL_ORDERS"
          [] t = "/store/orders/:orderId"                      -> "SINGLE_ORDER"
          [] t = "/store/orders/:orderId/:itemId"              -> "SINGLE_ORDER_ITEM"
          [] t = "/store/categories"                           -> "ALL_CATEGORIES"
          [] t = "/store/categories/:categoryId"               -> "SINGLE_CATEGORY"
          [] t = "/user/:userId/cart"                          -> "ALL_CART_ITEMS"
          [] t = "/user/:userId/cart/:index"                   -> "SINGLE_CART_ITEM"
          [] t = "/user/:userId/wishlist"                      -> "ALL_WISHLIST_ITEMS"
          [] t = "/user/:userId/wishlist/:productId"           -> "SINGLE_WISHLIST_ITEM"]

\* routes the server may mount the middleware on: the table's templates and
\* one template the table does not hold
RouteTemplates == DOMAIN resourceIdentification \cup {"/store/products"}

\* ResourceKind with a kind for the templates the table does not hold
ResourceKind_Fallback(incomingRoute) ==
    IF incomingRoute \in DOMAIN resourceIdentification
    THEN resourceIdentification[incomingRoute]
    ELSE "ALL_ORDERS"

\* resourceIdentification[incomingRoute]: undefined for a missing key
ResourceKind(incomingRoute) ==
    IF incomingRoute \in DOMAIN resourceIdentification
    THEN resourceIdentification[incomingRoute]
    ELSE "undefined"

\* the names of the parameters a route template binds in req.params
ParamNames(t) ==
    (IF t \in {"/user/:userId", "/user/:userId/addresses",
               "/user/:userId/addresses/:addressId",
               "/user/:userId/notifications",
               "/user/:userId/notifications/:notificationId",
               "/user/:userId/orders", "/user/:userId/cart",
               "/user/:userId/cart/:index", "/user/:userId/wishlist",
               "/user/:userId/wishlist/:productId"}
     THEN {"userId"} ELSE {})
    \cup (IF t = "/user/:userId/addresses/:addressId"
          THEN {"addressId"} ELSE {})

\* the req.params a client can produce for a template
ParamsOf(t) ==
    {p \in [ParamNames(t) -> UserIdStrings \cup AddressIdStrings] :
        /\ "userId" \in DOMAIN p => p["userId"] \in UserIdStrings
        /\ "addressId" \in DOMAIN p => p["addressId"] \in AddressIdStrings}

\* request bodies: no type field, or a type field
Bodies == {[f \in {} |-> ""]} \cup {[type |-> "CONSUMER"], [type |-> "ADMINISTRATOR"]}

\* what the JWT strategy hands to the callback of authentication.check:
\* false for a missing or invalid token, else the token's user
false == [false |-> TRUE]
TokenUsers == {false} \cup {[id |-> i] : i \in UserIds \cup {DeletedUserId}}

----------------------------------------------------------------------------
(* The rules of check, one operator per case of the switch.  Each gives    *)
(* what the synchronous run of the case ends in: "next" (return next()),   *)
(* "break" (leave the switch, 403), "throw" (a TypeError on reading a      *)
(* property of the undefined req.user, which rejects the promise of the    *)
(* async function), or the await it stops at.                              *)

isAdministrator(u) == u.type = "ADMINISTRATOR"
isConsumer(u) == u.type = "CONSUMER"

\* req.body.hasOwnProperty('type')
hasOwnProperty(body, f) == f \in DOMAIN body

\* req.body.type == "ADMINISTRATOR"
BodyTypeIs(body, t) == "type" \in DOMAIN body /\ body["type"] = t

\* ALL_USERS without the administrator-creation branch: any POST passes
ALL_USERS_AnyPost(q) ==
    IF q.method = "POST" THEN "next"
    ELSE IF q.user = undefined THEN "throw"
         ELSE IF isAdministrator(q.user) THEN "next" ELSE "break"

ALL_USERS(q) ==
    IF q.method = "POST"
    THEN IF BodyTypeIs(q.body, "ADMINISTRATOR")
         THEN "await authentication"
         ELSE "next"
    ELSE IF q.user = undefined THEN "throw"
         ELSE IF isAdministrator(q.user) THEN "next" ELSE "break"

\* ALL_USERS_resumed without the administrator test
ALL_USERS_resumed_AnyCaller(q) ==
    IF q.user = undefined THEN "throw" ELSE "next"

\* the rest of the administrator-creation branch, once the promise resolved
ALL_USERS_resumed(q) ==
    IF q.user = undefined THEN "throw"
    ELSE IF isAdministrator(q.user) THEN "next" ELSE "break"

\* SINGLE_USER without the administrator's access to other accounts
SINGLE_USER_OwnerOnly(q) ==
    IF q.user = undefined THEN "throw"
    ELSE IF q.method = "PUT" /\ hasOwnProperty(q.body, "type")
         THEN IF isAdministrator(q.user) THEN "next" ELSE "break"
         ELSE IF LooseEquals(q.params["userId"], q.user.id)
              THEN "next" ELSE "break"

\* SINGLE_USER without the branch for type changes
SINGLE_USER_NoTypeBranch(q) ==
    IF q.user = undefined THEN "throw"
    ELSE IF \/ LooseEquals(q.params["userId"], q.user.id)
            \/ isAdministrator(q.user)
         THEN "next" ELSE "break"

SINGLE_USER(q) ==
    IF q.user = undefined THEN "throw"
    ELSE IF q.method = "PUT" /\ hasOwnProperty(q.body, "type")
         THEN IF isAdministrator(q.user) THEN "next" ELSE "break"
         ELSE IF \/ LooseEquals(q.params["userId"], q.user.id)
                 \/ isAdministrator(q.user)
              THEN "next" ELSE "break"

\* SINGLE_ADDRESS without the comparison of userId
SINGLE_ADDRESS_AnyUserId(q) ==
    IF q.user = undefined THEN "throw"
    ELSE IF isAdministrator(q.user) THEN "next"
    ELSE IF includes(AddressIDs(q.user), Number(q.params["addressId"]))
         THEN "next" ELSE "break"

SINGLE_ADDRESS(q) ==
    IF q.user = undefined THEN "throw"
    ELSE IF isAdministrator(q.user) THEN "next"
    ELSE IF /\ LooseEquals(q.params["userId"], q.user.id)
            /\ includes(AddressIDs(q.user), Number(q.params["addressId"]))
         THEN "next" ELSE "break"

ALL_ADDRESSES(q) ==
    IF q.user = undefined THEN "throw"
    ELSE IF \/ LooseEquals(q.params["userId"], q.user.id)
            \/ isAdministrator(q.user)
         THEN "next" ELSE "break"

\* ALL_NOTIFICATIONS with the self-or-administrator rule for PUT as for GET
ALL_NOTIFICATIONS_AdminDismisses(q) ==
    IF q.method \in {"GET", "PUT"} /\ q.user = undefined THEN "throw"
    ELSE IF /\ q.method \in {"GET", "PUT"}
            /\ \/ LooseEquals(q.params["userId"], q.user.id)
               \/ isAdministrator(q.user)
         THEN "next"
    ELSE "break"

ALL_NOTIFICATIONS(q) ==
    IF q.method \in {"GET", "PUT"} /\ q.user = undefined THEN "throw"
    ELSE IF /\ q.method = "GET"
            /\ \/ LooseEquals(q.params["userId"], q.user.id)
               \/ isAdministrator(q.user)
         THEN "next"
    ELSE IF /\ q.method = "PUT"
            /\ LooseEquals(q.params["userId"], q.user.id)
         THEN "next"
    ELSE "break"

SINGLE_NOTIFICATION(q) ==
    IF q.method = "PUT" /\ q.user = undefined THEN "throw"
    ELSE IF /\ q.method = "PUT"
            /\ LooseEquals(q.params["userId"], q.user.id)
         THEN "next"
    ELSE "break"

\* ALL_USER_ORDERS with the self-or-administrator rule for POST as for GET
ALL_USER_ORDERS_AdminCreates(q) ==
    IF q.method \in {"POST", "GET"} /\ q.user = undefined THEN "throw"
    ELSE IF q.method \in {"POST", "GET"}
         THEN IF \/ LooseEquals(q.params["userId"], q.user.id)
                 \/ isAdministrator(q.user)
              THEN "next" ELSE "break"
    ELSE "break"

ALL_USER_ORDERS(q) ==
    IF q.method \in {"POST", "GET"} /\ q.user = undefined THEN "throw"
    ELSE IF q.method = "POST"
         THEN IF /\ LooseEquals(q.params["userId"], q.user.id)
                 /\ isConsumer(q.user)
              THEN "next" ELSE "break"
    ELSE IF q.method = "GET"
         THEN IF \/ LooseEquals(q.params["userId"], q.user.id)
                 \/ isAdministrator(q.user)
              THEN "next" ELSE "break"
    ELSE "break"

ALL_ORDERS(q) == "next"

SINGLE_ORDER(q) ==
    IF q.method = "GET" THEN "await order" ELSE "break"

\* SINGLE_ORDER_ITEM with the administrator let through, as in other cases
SINGLE_ORDER_ITEM_AdminFirst(q) ==
    IF q.user # undefined /\ isAdministrator(q.user) THEN "next"
    ELSE IF q.method = "PUT" THEN "await order" ELSE "break"

SINGLE_ORDER_ITEM(q) ==
    IF q.method = "PUT" THEN "await order" ELSE "break"

\* ALL_CATEGORIES with the consumer test in place of the administrator test
ALL_CATEGORIES_Consumer(q) ==
    IF q.user = undefined THEN "throw"
    ELSE IF isConsumer(q.user) THEN "next" ELSE "break"

ALL_CATEGORIES(q) ==
    IF q.user = undefined THEN "throw"
    ELSE IF isAdministrator(q.user) THEN "next" ELSE "break"

SINGLE_CATEGORY(q) ==
    IF q.user = undefined THEN "throw"
    ELSE IF isAdministrator(q.user) THEN "next" ELSE "break"

ALL_CART_ITEMS(q) ==
    IF q.user = undefined THEN "throw"
    ELSE IF LooseEquals(q.params["userId"], q.user.id) /\ isConsumer(q.user)
         THEN "next" ELSE "break"

\* SINGLE_CART_ITEM with the self-or-administrator rule of other cases
SINGLE_CART_ITEM_SelfOrAdmin(q) ==
    IF q.user = undefined THEN "throw"
    ELSE IF \/ LooseEquals(q.params["userId"], q.user.id)
            \/ isAdministrator(q.user)
         THEN "next" ELSE "break"

SINGLE_CART_ITEM(q) ==
    IF q.user = undefined THEN "throw"
    ELSE IF LooseEquals(q.params["userId"], q.user.id) /\ isConsumer(q.user)
         THEN "next" ELSE "break"

ALL_WISHLIST_ITEMS(q) ==
    IF q.user = undefined THEN "throw"
    ELSE IF LooseEquals(q.params["userId"], q.user.id) /\ isConsumer(q.user)
         THEN "next" ELSE "break"

SINGLE_WISHLIST_ITEM(q) ==
    IF q.user = undefined THEN "throw"
    ELSE IF LooseEquals(q.params["userId"], q.user.id) /\ isConsumer(q.user)
         THEN "next" ELSE "break"

\* the switch over resourceIdentification[incomingRoute]
Switch(q) ==
    LET kind == ResourceKind(q.route) IN
    CASE kind = "ALL_USERS"            -> ALL_USERS(q)
      [] kind = "SINGLE_USER"          -> SINGLE_USER(q)
      [] kind = "SINGLE_ADDRESS"       -> SINGLE_ADDRESS(q)
      [] kind = "ALL_ADDRESSES"        -> ALL_ADDRESSES(q)
      [] kind = "ALL_NOTIFICATIONS"    -> ALL_NOTIFICATIONS(q)
      [] kind = "SINGLE_NOTIFICATION"  -> SINGLE_NOTIFICATION(q)
      [] kind = "ALL_USER_ORDERS"      -> ALL_USER_ORDERS(q)
      [] kind = "ALL_ORDERS"           -> ALL_ORDERS(q)
      [] kind = "SINGLE_ORDER"         -> SINGLE_ORDER(q)
      [] kind = "SINGLE_ORDER_ITEM"    -> SINGLE_ORDER_ITEM(q)
      [] kind = "ALL_CATEGORIES"       -> ALL_CATEGORIES(q)
      [] kind = "SINGLE_CATEGORY"      -> SINGLE_CATEGORY(q)
      [] kind = "ALL_CART_ITEMS"       -> ALL_CART_ITEMS(q)
      [] kind = "SINGLE_CART_ITEM"     -> SINGLE_CART_ITEM(q)
      [] kind = "ALL_WISHLIST_ITEMS"   -> ALL_WISHLIST_ITEMS(q)
      [] kind = "SINGLE_WISHLIST_ITEM" -> SINGLE_WISHLIST_ITEM(q)
      [] OTHER                         -> "break"

----------------------------------------------------------------------------
(* The collaborators *)

\* getUserByID(id): the row with its addresses, or null when there is no
\* such user; a failing query is caught and gives null as well
getUserByID(id, queryFails) ==
    IF queryFails \/ id \notin DOMAIN store THEN null
    ELSE [id |-> id, type |-> store[id].type, Address |-> store[id].Address]

\* what an await of persistence.checkUserOrderRelationship or
\* persistence.checkUserItemRelationship can give for a caller: the
\* relationship holds, it does not, or the call rejects.  No relationship
\* exists for an absent caller.
RelationshipAnswers(u) ==
    IF u = undefined THEN {"false", "rejects"}
    ELSE {"true", "false", "rejects"}

----------------------------------------------------------------------------
(* Requests *)

Idle == [pc |-> "idle"]

\* a request as Express hands it to the first middleware of its route
NewRequest(route, method, params, body, tokenUser, guarded) ==
    [pc         |-> IF guarded THEN "authentication" ELSE "check",
     route      |-> route,          \* req.baseUrl + req.route.path
     method     |-> method,         \* req.method
     params     |-> params,         \* req.params
     body       |-> body,           \* req.body
     tokenUser  |-> tokenUser,      \* the user of the bearer token, or false
     guarded    |-> guarded,        \* authentication.check is mounted before check
     user       |-> undefined,      \* req.user
     entered    |-> FALSE,          \* check was called for this request
     inner      |-> FALSE,          \* authentication.check runs inside check
     innerRuns  |-> 0,              \* runs of authentication.check inside check
     retrieved  |-> undefined,      \* retrievedUser of the last getUserByID
     responses  |-> <<>>,           \* statuses sent with res.status(...)
     messages   |-> <<>>,           \* bodies sent with .json(...) or .send(...)
     nextCalls  |-> 0,              \* calls of the next() given to check
     rejected   |-> FALSE,          \* the promise of check was rejected
     pending    |-> {},             \* collaborator calls in flight
     orderCalls |-> 0,              \* calls of checkUserOrderRelationship
     itemCalls  |-> 0,              \* calls of checkUserItemRelationship
     orderAnswer |-> "none",
     itemAnswer  |-> "none"]

Respond(q, status) == [q EXCEPT !.responses = Append(@, status)]

\* the two message bodies of the middlewares
InvalidToken == "Invalid token. Unauthorized access."
InsufficientPermissions == "Insufficient permissions for specified resource."

\* res.status(status).json({message: message})
Send(q, status, message) ==
    [Respond(q, status) EXCEPT !.messages = Append(@, message)]

\* return next() in check
CallNext(q) == [q EXCEPT !.nextCalls = @ + 1, !.pc = "done"]

\* Reject403 dropping the identity of the refused caller
Reject403_DropsUser(q) ==
    [Send(q, 403, InsufficientPermissions) EXCEPT
        !.pc = "done", !.user = undefined]

\* Reject403 telling a missing order from a refused one
Reject403_NotFound(q) ==
    IF q.orderAnswer = "false"
    THEN [Send(q, 404, "Order not found.") EXCEPT !.pc = "done"]
    ELSE [Send(q, 403, InsufficientPermissions) EXCEPT !.pc = "done"]

\* return res.status(403).send({message: "Insufficient permissions ..."})
Reject403(q) == [Send(q, 403, InsufficientPermissions) EXCEPT !.pc = "done"]

\* a TypeError leaves the async function: its promise is rejected
Throw(q) == [q EXCEPT !.rejected = TRUE, !.pc = "done"]

\* authentication.check up to its await: the callback of
\* passport.authenticate answers 401 for a missing or invalid token, else
\* it calls getUserByID(tokenUser.id)
StartAuthentication(q) ==
    IF q.tokenUser = false
    THEN [Send(q, 401, InvalidToken) EXCEPT
                !.pc = IF q.inner THEN "suspended" ELSE "done"]
    ELSE [q EXCEPT !.pc = "getUserByID", !.pending = @ \cup {"user"}]

----------------------------------------------------------------------------
(* Actions *)

\* a client sends a request
Receive(r) ==
    /\ rq[r] = Idle
    /\ \E route \in RouteTemplates, method \in Methods, body \in Bodies,
          tokenUser \in TokenUsers, guarded \in BOOLEAN :
         \E params \in ParamsOf(route) :
            rq' = [rq EXCEPT ![r] =
                     NewRequest(route, method, params, body, tokenUser, guarded)]
    /\ UNCHANGED <<store, user, outdated>>

\* authentication.check as a middleware of the route, before check
authentication_check(r) ==
    /\ rq[r].pc = "authentication"
    /\ rq' = [rq EXCEPT ![r] = StartAuthentication(rq[r])]
    /\ UNCHANGED <<store, user, outdated>>

\* getUserByID_returns resolving the promise of check after the 401 of a
\* run of authentication.check inside check
getUserByID_returns_ResolvesAfter401(r) ==
    /\ rq[r].pc = "getUserByID"
    /\ \E queryFails \in BOOLEAN :
         LET q == rq[r]
             retrievedUser == getUserByID(q.tokenUser.id, queryFails)
             q1 == [q EXCEPT !.pending = @ \ {"user"},
                             !.retrieved = retrievedUser]
         IN /\ user' = retrievedUser
            /\ rq' = [rq EXCEPT ![r] =
                 IF retrievedUser # null
                 THEN [q1 EXCEPT !.user = retrievedUser,
                                 !.pc = IF q.inner THEN "resumed" ELSE "check"]
                 ELSE [Send(q1, 401, InvalidToken) EXCEPT
                                 !.pc = IF q.inner THEN "resumed" ELSE "done"]]
    /\ UNCHANGED <<store, outdated>>

\* getUserByID_returns handing over the global `user` as the lookup before
\* it left it, its own record being assigned to the global afterwards
getUserByID_returns_SharedUser(r) ==
    /\ rq[r].pc = "getUserByID"
    /\ \E queryFails \in BOOLEAN :
         LET q == rq[r]
             fetched == getUserByID(q.tokenUser.id, queryFails)
             retrievedUser == IF user = undefined THEN fetched ELSE user
             q1 == [q EXCEPT !.pending = @ \ {"user"},
                             !.retrieved = retrievedUser]
         IN /\ user' = fetched
            /\ rq' = [rq EXCEPT ![r] =
                 IF retrievedUser # null
                 THEN [q1 EXCEPT !.user = retrievedUser,
                                 !.pc = IF q.inner THEN "resumed" ELSE "check"]
                 ELSE [Send(q1, 401, InvalidToken) EXCEPT
                                 !.pc = IF q.inner THEN "suspended" ELSE "done"]]
    /\ UNCHANGED <<store, outdated>>

\* getUserByID_returns answering from the record of the lookup before it
\* when that was a lookup of the same user
getUserByID_returns_Cached(r) ==
    /\ rq[r].pc = "getUserByID"
    /\ \E queryFails \in BOOLEAN :
         LET q == rq[r]
             retrievedUser ==
                 IF user \notin {undefined, null} /\ user.id = q.tokenUser.id
                 THEN user
                 ELSE getUserByID(q.tokenUser.id, queryFails)
             q1 == [q EXCEPT !.pending = @ \ {"user"},
                             !.retrieved = retrievedUser]
         IN /\ user' = retrievedUser
            /\ rq' = [rq EXCEPT ![r] =
                 IF retrievedUser # null
                 THEN [q1 EXCEPT !.user = retrievedUser,
                                 !.pc = IF q.inner THEN "resumed" ELSE "check"]
                 ELSE [Send(q1, 401, InvalidToken) EXCEPT
                                 !.pc = IF q.inner THEN "suspended" ELSE "done"]]
    /\ UNCHANGED <<store, outdated>>

\* getUserByID_returns going on to next() after the 401 for a missing user
getUserByID_returns_FallsThrough(r) ==
    /\ rq[r].pc = "getUserByID"
    /\ \E queryFails \in BOOLEAN :
         LET q == rq[r]
             retrievedUser == getUserByID(q.tokenUser.id, queryFails)
             q1 == [q EXCEPT !.pending = @ \ {"user"},
                             !.retrieved = retrievedUser]
             q2 == IF retrievedUser # null
                   THEN [q1 EXCEPT !.user = retrievedUser]
                   ELSE Send(q1, 401, InvalidToken)
         IN /\ user' = retrievedUser
            /\ rq' = [rq EXCEPT ![r] =
                 [q2 EXCEPT !.pc = IF q.inner THEN "resumed" ELSE "check"]]
    /\ UNCHANGED <<store, outdated>>

\* getUserByID returns to the .then of authentication.check
getUserByID_returns(r) ==
    /\ rq[r].pc = "getUserByID"
    /\ \E queryFails \in BOOLEAN :
         LET q == rq[r]
             retrievedUser == getUserByID(q.tokenUser.id, queryFails)
             q1 == [q EXCEPT !.pending = @ \ {"user"},
                             !.retrieved = retrievedUser]
         IN /\ user' = retrievedUser
            /\ rq' = [rq EXCEPT ![r] =
                 IF retrievedUser # null
                 THEN [q1 EXCEPT !.user = retrievedUser,
                                 !.pc = IF q.inner THEN "resumed" ELSE "check"]
                 ELSE [Send(q1, 401, InvalidToken) EXCEPT
                                 !.pc = IF q.inner THEN "suspended" ELSE "done"]]
    /\ UNCHANGED <<store, outdated>>

\* check, from its entry to its first await or to its end
check(r) ==
    /\ rq[r].pc = "check"
    /\ LET q == [rq[r] EXCEPT !.entered = TRUE]
           result == Switch(q)
       IN rq' = [rq EXCEPT ![r] =
            CASE result = "next"  -> CallNext(q)
              [] result = "break" -> Reject403(q)
              [] result = "throw" -> Throw(q)
              [] result = "await authentication" ->
                    StartAuthentication([q EXCEPT !.inner = TRUE,
                                                  !.innerRuns = @ + 1])
              [] result = "await order" ->
                    [q EXCEPT !.pc = "order",
                              !.orderCalls = @ + 1,
                              !.pending = @ \cup {"order"}]]
    /\ UNCHANGED <<store, user, outdated>>

\* the promise around authentication.check resolved: check goes on
check_resumed(r) ==
    /\ rq[r].pc = "resumed"
    /\ LET q == [rq[r] EXCEPT !.inner = FALSE]
           result == ALL_USERS_resumed(q)
       IN rq' = [rq EXCEPT ![r] =
            CASE result = "next"  -> CallNext(q)
              [] result = "break" -> Reject403(q)
              [] result = "throw" -> Throw(q)]
    /\ UNCHANGED <<store, user, outdated>>

\* AfterOrderCheck with the item check called whatever the order check says
AfterOrderCheck_NoGate(q, answer) ==
    LET q1 == [q EXCEPT !.pending = @ \ {"order"}, !.orderAnswer = answer] IN
    IF answer = "rejects" THEN Throw(q1)
    ELSE IF ResourceKind(q.route) = "SINGLE_ORDER"
         THEN IF answer = "true" THEN CallNext(q1) ELSE Reject403(q1)
         ELSE [q1 EXCEPT !.pc = "item",
                         !.itemCalls = @ + 1,
                         !.pending = @ \cup {"item"}]

\* what check does with the answer of checkUserOrderRelationship
AfterOrderCheck(q, answer) ==
    LET q1 == [q EXCEPT !.pending = @ \ {"order"}, !.orderAnswer = answer] IN
    IF answer = "rejects" THEN Throw(q1)
    ELSE IF answer = "true"
         THEN IF ResourceKind(q.route) = "SINGLE_ORDER"
              THEN CallNext(q1)
              ELSE [q1 EXCEPT !.pc = "item",
                              !.itemCalls = @ + 1,
                              !.pending = @ \cup {"item"}]
         ELSE Reject403(q1)

\* what check does with the answer of checkUserItemRelationship
AfterItemCheck(q, answer) ==
    LET q1 == [q EXCEPT !.pending = @ \ {"item"}, !.itemAnswer = answer] IN
    IF answer = "rejects" THEN Throw(q1)
    ELSE IF answer = "true" THEN CallNext(q1) ELSE Reject403(q1)

\* checkUserOrderRelationship returns to check
order_check_returns(r) ==
    /\ rq[r].pc = "order"
    /\ \E answer \in RelationshipAnswers(rq[r].user) :
         rq' = [rq EXCEPT ![r] = AfterOrderCheck(rq[r], answer)]
    /\ UNCHANGED <<store, user, outdated>>

\* checkUserItemRelationship returns to check
item_check_returns(r) ==
    /\ rq[r].pc = "item"
    /\ \E answer \in RelationshipAnswers(rq[r].user) :
         rq' = [rq EXCEPT ![r] = AfterItemCheck(rq[r], answer)]
    /\ UNCHANGED <<store, user, outdated>>

\* a client sends a request with the token the request before it bore (the
\* first request bears the token of any user of the store; the sequence
\* ends when a lookup fails)
ReceiveSameToken(r) ==
    /\ rq[r] = Idle
    /\ \E route \in RouteTemplates, method \in Methods, body \in Bodies,
          tokenUser \in {[id |-> i] : i \in UserIds}, guarded \in BOOLEAN :
         /\ user # null
         /\ IF user = undefined THEN TRUE ELSE tokenUser.id = user.id
         /\ \E params \in ParamsOf(route) :
               rq' = [rq EXCEPT ![r] =
                       NewRequest(route, method, params, body, tokenUser, guarded)]
    /\ UNCHANGED <<store, user, outdated>>

\* the routes of the concurrent requests: one for each await of check
ConcurrentRoutes ==
    {"/user/", "/user/:userId", "/store/orders/:orderId/:itemId"}

\* a client sends a request while another request may be under way
ReceiveConcurrent(r) ==
    /\ rq[r] = Idle
    /\ \E route \in ConcurrentRoutes, method \in {"POST", "PUT"},
          tokenUser \in {[id |-> i] : i \in UserIds} :
         \E params \in {p \in ParamsOf(route) :
                          \A n \in DOMAIN p :
                             p[n] \in {DecimalString(i) : i \in UserIds}} :
            rq' = [rq EXCEPT ![r] =
                     NewRequest(route, method, params,
                                [type |-> "ADMINISTRATOR"], tokenUser,
                                route # "/user/")]
    /\ UNCHANGED <<store, user, outdated>>

\* updateUser(id, {type: type}) between two requests, for the user the
\* last request bore the token of
updateUser(id, type) ==
    /\ \A r \in DOMAIN rq : rq[r] = Idle
    /\ user \notin {undefined, null}
    /\ id = user.id
    /\ id \in DOMAIN store
    /\ type # store[id].type
    /\ store' = [store EXCEPT ![id].type = type]
    /\ outdated' = user
    /\ UNCHANGED <<user, rq>>

\* the routes by which an account gets its type
AccountRoutes == {"/user/", "/user/:userId"}

\* a client sends a request for an account route
ReceiveAccount(r) ==
    /\ rq[r] = Idle
    /\ \E route \in AccountRoutes, method \in Methods, body \in Bodies,
          tokenUser \in TokenUsers, guarded \in BOOLEAN :
         \E params \in ParamsOf(route) :
            rq' = [rq EXCEPT ![r] =
                     NewRequest(route, method, params, body, tokenUser, guarded)]
    /\ UNCHANGED <<store, user, outdated>>

\* the id of the next row prisma.user.create makes
NextUserId == MaxUserId + 1

\* createUser(req.body) once check has passed a POST of ALL_USERS on: the
\* user row is made with type params.type (the row stays although the
\* function ends in its catch); the request is over
createUser(r) ==
    /\ rq[r].pc = "done"
    /\ rq[r].nextCalls > 0
    /\ ResourceKind(rq[r].route) = "ALL_USERS"
    /\ rq[r].method = "POST"
    /\ hasOwnProperty(rq[r].body, "type")
    /\ NextUserId \notin DOMAIN store
    /\ store' = [i \in DOMAIN store \cup {NextUserId} |->
                   IF i = NextUserId
                   THEN [type |-> rq[r].body["type"], Address |-> <<>>]
                   ELSE store[i]]
    /\ rq' = [rq EXCEPT ![r] = Idle]
    /\ UNCHANGED <<user, outdated>>

\* updateUser(req.params.userId, req.body) once check has passed a PUT of
\* SINGLE_USER on: userKeyMap carries `type` into the update of the row;
\* the request is over
updateUser_passed(r) ==
    /\ rq[r].pc = "done"
    /\ rq[r].nextCalls > 0
    /\ ResourceKind(rq[r].route) = "SINGLE_USER"
    /\ rq[r].method = "PUT"
    /\ hasOwnProperty(rq[r].body, "type")
    /\ \E id \in DOMAIN store :
         /\ LooseEquals(rq[r].params["userId"], id)
         /\ rq[r].body["type"] # store[id].type
         /\ store' = [store EXCEPT ![id].type = rq[r].body["type"]]
    /\ rq' = [rq EXCEPT ![r] = Idle]
    /\ UNCHANGED <<user, outdated>>

\* the request is over (answered, passed on, or abandoned): the slot is free
Finish(r) ==
    /\ rq[r].pc \in {"done", "suspended"}
    /\ rq' = [rq EXCEPT ![r] = Idle]
    /\ UNCHANGED <<store, user, outdated>>

----------------------------------------------------------------------------
(* Specification *)

Init ==
    /\ \E types \in [UserIds -> Roles] :
         store = [i \in UserIds |->
                    [type |-> types[i], Address |-> AddressRows(i)]]
    /\ user = undefined
    /\ rq = [r \in {1} |-> Idle]
    /\ outdated = undefined

Next ==
    \/ \E r \in DOMAIN rq : Receive(r)
    \/ \E r \in DOMAIN rq : authentication_check(r)
    \/ \E r \in DOMAIN rq : getUserByID_returns(r)
    \/ \E r \in DOMAIN rq : check(r)
    \/ \E r \in DOMAIN rq : check_resumed(r)
    \/ \E r \in DOMAIN rq : order_check_returns(r)
    \/ \E r \in DOMAIN rq : item_check_returns(r)
    \/ \E r \in DOMAIN rq : Finish(r)

Spec == Init /\ [][Next]_vars

\* requests bearing one token, with type changes between them; accounts
\* are created as consumers
InitChange ==
    /\ store = [i \in UserIds |->
                  [type |-> "CONSUMER", Address |-> AddressRows(i)]]
    /\ user = undefined
    /\ rq = [r \in {1} |-> Idle]
    /\ outdated = undefined

NextChange ==
    \/ \E r \in DOMAIN rq : ReceiveSameToken(r)
    \/ \E r \in DOMAIN rq : authentication_check(r)
    \/ \E r \in DOMAIN rq : getUserByID_returns(r)
    \/ \E r \in DOMAIN rq : check(r)
    \/ \E r \in DOMAIN rq : check_resumed(r)
    \/ \E r \in DOMAIN rq : order_check_returns(r)
    \/ \E r \in DOMAIN rq : item_check_returns(r)
    \/ \E r \in DOMAIN rq : Finish(r)
    \/ \E id \in UserIds, type \in Roles : updateUser(id, type)

SpecChange == InitChange /\ [][NextChange]_vars

\* two requests under way at once, interleaved at their awaits
InitConcurrent ==
    /\ \E types \in [UserIds -> {"CONSUMER", "ADMINISTRATOR"}] :
         store = [i \in UserIds |->
                    [type |-> types[i], Address |-> AddressRows(i)]]
    /\ user = undefined
    /\ rq = [r \in {1, 2} |-> Idle]
    /\ outdated = undefined

NextConcurrent ==
    \/ \E r \in DOMAIN rq : ReceiveConcurrent(r)
    \/ \E r \in DOMAIN rq : authentication_check(r)
    \/ \E r \in DOMAIN rq : getUserByID_returns(r)
    \/ \E r \in DOMAIN rq : check(r)
    \/ \E r \in DOMAIN rq : check_resumed(r)
    \/ \E r \in DOMAIN rq : order_check_returns(r)
    \/ \E r \in DOMAIN rq : item_check_returns(r)
    \/ \E r \in DOMAIN rq : Finish(r)

SpecConcurrent == InitConcurrent /\ [][NextConcurrent]_vars

\* a sequence of requests for the account routes, the identity store
\* changing by what the passed requests do to it
InitAccount ==
    /\ \E types \in [UserIds -> {"CONSUMER", "SUPPLIER", "ADMINISTRATOR"}] :
         store = [i \in UserIds |->
                    [type |-> types[i], Address |-> AddressRows(i)]]
    /\ user = undefined
    /\ rq = [r \in {1} |-> Idle]
    /\ outdated = undefined

NextAccount ==
    \/ \E r \in DOMAIN rq : ReceiveAccount(r)
    \/ \E r \in DOMAIN rq : authentication_check(r)
    \/ \E r \in DOMAIN rq : getUserByID_returns(r)
    \/ \E r \in DOMAIN rq : check(r)
    \/ \E r \in DOMAIN rq : check_resumed(r)
    \/ \E r \in DOMAIN rq : createUser(r)
    \/ \E r \in DOMAIN rq : updateUser_passed(r)
    \/ \E r \in DOMAIN rq : Finish(r)

SpecAccount == InitAccount /\ [][NextAccount]_vars

\* the scheduling of one request: the event loop runs every step that is
\* ready, and every collaborator call (getUserByID, the two relationship
\* checks) eventually returns; no client is bound to send a request, and
\* nothing is bound to discard a request that is over or suspended
Fairness ==
    /\ WF_vars(\E r \in DOMAIN rq : authentication_check(r))
    /\ WF_vars(\E r \in DOMAIN rq : getUserByID_returns(r))
    /\ WF_vars(\E r \in DOMAIN rq : check(r))
    /\ WF_vars(\E r \in DOMAIN rq : check_resumed(r))
    /\ WF_vars(\E r \in DOMAIN rq : order_check_returns(r))
    /\ WF_vars(\E r \in DOMAIN rq : item_check_returns(r))

SpecFair == Init /\ [][Next]_vars /\ Fairness

----------------------------------------------------------------------------
(* Vocabulary of the properties *)

Requests == {rq[r] : r \in {s \in DOMAIN rq : rq[s] # Idle}}

Kind(q) == ResourceKind(q.route)

\* check ran to its end for q
Decided(q) == q.entered /\ q.pc = "done"

\* ALLOW: check called next()
Allowed(q) == q.nextCalls > 0

\* DENY: the 403 of check and nothing else, next() not called
Denied(q) == q.responses = <<403>> /\ q.nextCalls = 0 /\ ~q.rejected

\* the route parameter s is the decimal numeral of n
Denotes(s, n) == /\ s # <<>>
                 /\ \A i \in 1..Len(s) : IsDigit(s[i])
                 /\ DecimalValue(s) = n

Owner(q) == Denotes(q.params["userId"], q.user.id)

\* the methods each kind's rule is written for, as the comments of check
\* state them ("This is valid for: ...")
ValidFor(kind) ==
    CASE kind = "ALL_USERS"            -> {"GET", "POST", "PUT", "DELETE"}
      [] kind = "SINGLE_USER"          -> {"GET", "PUT", "DELETE"}
      [] kind = "SINGLE_ADDRESS"       -> {"PUT", "DELETE"}
      [] kind = "ALL_ADDRESSES"        -> {"POST"}
      [] kind = "ALL_NOTIFICATIONS"    -> {"GET", "PUT"}
      [] kind = "SINGLE_NOTIFICATION"  -> {"PUT"}
      [] kind = "ALL_USER_ORDERS"      -> {"POST", "GET"}
      [] kind = "ALL_ORDERS"           -> {"GET"}
      [] kind = "SINGLE_ORDER"         -> {"GET"}
      [] kind = "SINGLE_ORDER_ITEM"    -> {"GET", "PUT"}
      [] kind = "ALL_CATEGORIES"       -> {"POST"}
      [] kind = "SINGLE_CATEGORY"      -> {"PUT", "DELETE"}
      [] kind = "ALL_CART_ITEMS"       -> {"GET", "POST", "DELETE"}
      [] kind = "SINGLE_CART_ITEM"     -> {"PUT", "DELETE"}
      [] kind = "ALL_WISHLIST_ITEMS"   -> {"GET", "POST", "DELETE"}
      [] kind = "SINGLE_WISHLIST_ITEM" -> {"DELETE"}
      [] OTHER                         -> {}

----------------------------------------------------------------------------
(* C1 *)

\* C1: for every route template of the table and every method that has no
\* rule under the route's kind, check ends in the 403 and never calls
\* next(), whoever the caller is.
C1_FailClosedOnMethods ==
    \A q \in Requests :
        /\ q.entered
        /\ q.route \in DOMAIN resourceIdentification
        /\ q.method \notin ValidFor(Kind(q))
        => /\ q.nextCalls = 0
           /\ q.pc = "done" => Denied(q)

----------------------------------------------------------------------------
(* C2 *)

\* C2: with no req.user, check calls next() only for ALL_USERS POST with
\* body.type other than ADMINISTRATOR; on every other kind and method an
\* absent identity is never allowed.
C2_AbsentIdentityOnlySignsUp ==
    \A q \in Requests :
        Allowed(q) /\ q.user = undefined
        => /\ Kind(q) = "ALL_USERS"
           /\ q.method = "POST"
           /\ ~BodyTypeIs(q.body, "ADMINISTRATOR")

----------------------------------------------------------------------------
(* C3 *)

AdminCreation(q) ==
    /\ q.entered
    /\ Kind(q) = "ALL_USERS"
    /\ q.method = "POST"
    /\ BodyTypeIs(q.body, "ADMINISTRATOR")

Signup(q) ==
    /\ q.entered
    /\ Kind(q) = "ALL_USERS"
    /\ q.method = "POST"
    /\ ~BodyTypeIs(q.body, "ADMINISTRATOR")

\* token validation inside check resolved an identity
Resolved(q) == q.tokenUser # false /\ q.retrieved \notin {undefined, null}

ResolvedAdministrator(q) == Resolved(q) /\ q.retrieved.type = "ADMINISTRATOR"

----------------------------------------------------------------------------
(* C4 *)

\* C4: on SINGLE_USER with GET, DELETE or PUT without a 'type' field in the
\* body, and a resolved caller: ALLOW iff routeParams.userId is the
\* caller's id or the caller is an ADMINISTRATOR, DENY otherwise.
C4_SingleUserSelfOrAdmin ==
    \A q \in Requests :
        /\ Decided(q)
        /\ Kind(q) = "SINGLE_USER"
        /\ q.method \in {"GET", "DELETE", "PUT"}
        /\ ~hasOwnProperty(q.body, "type")
        /\ q.user # undefined
        => /\ Allowed(q) <=> (Owner(q) \/ q.user.type = "ADMINISTRATOR")
           /\ ~Allowed(q) => Denied(q)

\* a consumer read another user's account and was denied
C4_Witness ==
    \E q \in Requests :
        /\ Decided(q)
        /\ Kind(q) = "SINGLE_USER"
        /\ q.method = "GET"
        /\ q.user # undefined
        /\ q.user.type = "CONSUMER"
        /\ ~Owner(q)
        /\ Denied(q)

----------------------------------------------------------------------------
(* C5 *)

\* C5: on SINGLE_USER PUT with a 'type' field in the body: ALLOW iff the
\* caller is an ADMINISTRATOR, whether or not routeParams.userId is the
\* caller's id.
C5_TypeChangeNeedsAdministrator ==
    \A q \in Requests :
        /\ Decided(q)
        /\ Kind(q) = "SINGLE_USER"
        /\ q.method = "PUT"
        /\ hasOwnProperty(q.body, "type")
        => /\ Allowed(q) <=> (q.user # undefined /\ q.user.type = "ADMINISTRATOR")
           /\ q.user # undefined /\ ~Allowed(q) => Denied(q)

\* an owner who is no administrator changed the type of the own account
\* and was denied
C5_Witness ==
    \E q \in Requests :
        /\ Decided(q)
        /\ Kind(q) = "SINGLE_USER"
        /\ q.method = "PUT"
        /\ hasOwnProperty(q.body, "type")
        /\ q.user # undefined
        /\ Owner(q)
        /\ q.user.type # "ADMINISTRATOR"
        /\ Denied(q)

----------------------------------------------------------------------------
(* C6 *)

----------------------------------------------------------------------------
(* C7 *)

\* C7: within one request checkUserItemRelationship is called only after
\* checkUserOrderRelationship has returned true: while the order check has
\* not returned, or when it returned false, the item check has been called
\* zero times, and the two calls are never in flight together.
C7_ItemCheckAfterOrderCheck ==
    \A q \in Requests :
        /\ q.orderAnswer # "true" => q.itemCalls = 0
        /\ "order" \in q.pending => q.itemCalls = 0
        /\ ~({"order", "item"} \subseteq q.pending)
        /\ q.itemCalls <= 1 /\ q.orderCalls <= 1
        /\ "item" \in q.pending => q.itemCalls = 1 /\ q.orderCalls = 1

\* the item check is in flight, the order check has returned true
C7_Witness ==
    \E q \in Requests :
        /\ q.pc = "item"
        /\ q.pending = {"item"}
        /\ q.orderAnswer = "true"

----------------------------------------------------------------------------
(* C8 *)

CartOrWishlist ==
    {"ALL_CART_ITEMS", "SINGLE_CART_ITEM",
     "ALL_WISHLIST_ITEMS", "SINGLE_WISHLIST_ITEM"}

\* C8: on the cart and wishlist kinds every caller whose type is not
\* CONSUMER is denied, the owner and the ADMINISTRATOR included; a caller
\* is allowed only if it is the owner and a CONSUMER.
C8_CartAndWishlistForConsumerOwner ==
    \A q \in Requests :
        Decided(q) /\ Kind(q) \in CartOrWishlist /\ q.user # undefined
        => /\ q.user.type # "CONSUMER" => Denied(q)
           /\ Allowed(q) => Owner(q) /\ q.user.type = "CONSUMER"
           /\ ~Allowed(q) => Denied(q)

\* an administrator was denied on the own cart
C8_Witness ==
    \E q \in Requests :
        /\ Decided(q) /\ Kind(q) = "ALL_CART_ITEMS"
        /\ q.user # undefined
        /\ q.user.type = "ADMINISTRATOR"
        /\ Owner(q)
        /\ Denied(q)

----------------------------------------------------------------------------
(* C9 *)

\* routeParams.addressId is the id of one of the caller's own addresses
OwnAddress(q) ==
    \E i \in 1..Len(q.user.Address) :
        Denotes(q.params["addressId"], q.user.Address[i].id)

\* C9: on SINGLE_ADDRESS: ALLOW iff (routeParams.addressId is the id of one
\* of the caller's own addresses and routeParams.userId is the caller's id)
\* or the caller is an ADMINISTRATOR.  The consumer 5 with the addresses 9
\* and 12 is allowed on /user/5/addresses/9 and denied on
\* /user/5/addresses/99 and on /user/6/addresses/9.
C9_SingleAddressOwnAddressOrAdmin ==
    \A q \in Requests :
        Decided(q) /\ Kind(q) = "SINGLE_ADDRESS" /\ q.user # undefined
        => /\ Allowed(q) <=> \/ OwnAddress(q) /\ Owner(q)
                             \/ q.user.type = "ADMINISTRATOR"
           /\ ~Allowed(q) => Denied(q)
           /\ /\ q.user.id = 5 /\ q.user.type = "CONSUMER"
              /\ q.user.Address = <<[id |-> 9], [id |-> 12]>>
              => /\ q.params = [userId |-> <<"5">>, addressId |-> <<"9">>]
                    => Allowed(q)
                 /\ q.params = [userId |-> <<"5">>, addressId |-> <<"9", "9">>]
                    => Denied(q)
                 /\ q.params = [userId |-> <<"6">>, addressId |-> <<"9">>]
                    => Denied(q)

\* the consumer 5 was denied on /user/5/addresses/99
C9_Witness ==
    \E q \in Requests :
        /\ Decided(q) /\ Kind(q) = "SINGLE_ADDRESS"
        /\ q.user # undefined
        /\ q.user.id = 5 /\ q.user.type = "CONSUMER"
        /\ q.params = [userId |-> <<"5">>, addressId |-> <<"9", "9">>]
        /\ Denied(q)

----------------------------------------------------------------------------
(* C10 *)

\* C10: a request whose route template is no key of the route table, or
\* whose kind has no case (SINGLE_PRODUCT), always ends in the 403 and
\* never calls next(), for every method and every caller, ADMINISTRATOR
\* included.
C10_UnclassifiedIsDenied ==
    \A q \in Requests :
        /\ q.entered
        /\ \/ q.route \notin DOMAIN resourceIdentification
           \/ Kind(q) = "SINGLE_PRODUCT"
        => /\ q.nextCalls = 0
           /\ q.pc = "done"
           /\ Denied(q)

\* an administrator was denied on a template the table does not hold
C10_Witness ==
    \E q \in Requests :
        /\ Decided(q)
        /\ q.route \notin DOMAIN resourceIdentification
        /\ q.user # undefined
        /\ q.user.type = "ADMINISTRATOR"
        /\ Denied(q)

----------------------------------------------------------------------------
(* C11 *)

\* check ended without next() and without an exception
Refused(q) == Decided(q) /\ ~Allowed(q) /\ ~q.rejected

\* C11: every DENY of check is the same response, status 403 with the
\* body {"message": "Insufficient permissions for specified resource."},
\* whichever rule failed: whatever the kind, whether the order check or the
\* item check failed, any two refused requests got the same response.
C11_UniformDenial ==
    \A q \in Requests :
        /\ Refused(q)
           => /\ q.responses = <<403>>
              /\ q.messages = <<InsufficientPermissions>>
        /\ \A i \in 1..Len(q.responses) :
              q.responses[i] = 403 => q.messages[i] = InsufficientPermissions

\* a request refused by the order check
C11_Witness ==
    \E q \in Requests :
        /\ Refused(q)
        /\ Kind(q) = "SINGLE_ORDER_ITEM"
        /\ q.orderAnswer = "false"
        /\ q.responses = <<403>>

----------------------------------------------------------------------------
(* C12 *)

\* the bearer token is missing or invalid, or the store has no record for
\* the token's user
NoIdentity(q) == q.tokenUser = false \/ q.tokenUser.id \notin DOMAIN store

\* the run of authentication.check mounted before check is over
AuthenticationOver(q) == q.guarded /\ (q.entered \/ q.pc \in {"check", "done"})

\* the run of authentication.check inside check is over
InnerAuthenticationOver(q) ==
    q.innerRuns = 1 /\ q.pc \in {"resumed", "suspended", "done"}

\* C12: in authentication.check, whenever the bearer token is missing or
\* invalid, or the token's user has no record in the identity store, the
\* response is 401 with the body {"message": "Invalid token. Unauthorized
\* access."}, next() is not called and req.user is not set; next() is
\* called only after req.user was set to the record getUserByID returned
\* for the token's user id.
C12_AuthenticationCheck ==
    \A q \in Requests :
        /\ AuthenticationOver(q) /\ NoIdentity(q)
           => /\ q.responses = <<401>>
              /\ q.messages = <<InvalidToken>>
              /\ q.pc = "done" /\ ~q.entered
              /\ q.user = undefined
        /\ InnerAuthenticationOver(q) /\ NoIdentity(q)
           => /\ q.responses = <<401>>
              /\ q.messages = <<InvalidToken>>
              /\ q.pc = "suspended"
              /\ q.user = undefined
        /\ (q.guarded /\ (q.entered \/ q.pc = "check"))
           \/ (InnerAuthenticationOver(q) /\ q.pc # "suspended")
           => /\ q.tokenUser # false
              /\ q.user = getUserByID(q.tokenUser.id, FALSE)
              /\ q.user # null
              /\ q.user.id = q.tokenUser.id

\* the token of a user without a record was answered with the 401
C12_Witness ==
    \E q \in Requests :
        /\ AuthenticationOver(q)
        /\ q.tokenUser # false
        /\ q.tokenUser.id \notin DOMAIN store
        /\ q.responses = <<401>>
        /\ q.messages = <<InvalidToken>>

----------------------------------------------------------------------------
(* C13 *)

\* a collaborator call made during the evaluation of check failed: one of
\* the relationship checks rejected, or the query of getUserByID inside
\* the administrator-creation branch failed for a user the store holds
CollaboratorFailed(q) ==
    \/ q.orderAnswer = "rejects"
    \/ q.itemAnswer = "rejects"
    \/ /\ InnerAuthenticationOver(q)
       /\ q.tokenUser # false
       /\ q.tokenUser.id \in DOMAIN store
       /\ q.retrieved = null

\* C13: if a collaborator call made during evaluation fails, the outcome
\* of the request is DENY and next() is never called for it.
C13_CollaboratorFailureIsDenied ==
    \A q \in Requests :
        q.entered /\ CollaboratorFailed(q)
        => /\ q.nextCalls = 0
           /\ q.pc = "done"
           /\ Denied(q)

----------------------------------------------------------------------------
(* C14 *)

\* the rule of q's kind and method reads a property of req.user
InspectsCaller(q) ==
    \/ Kind(q) = "ALL_USERS" /\ q.method # "POST"
    \/ Kind(q) \in {"SINGLE_USER", "SINGLE_ADDRESS", "ALL_ADDRESSES",
                    "ALL_CATEGORIES", "SINGLE_CATEGORY"} \cup CartOrWishlist
    \/ Kind(q) = "ALL_NOTIFICATIONS" /\ q.method \in {"GET", "PUT"}
    \/ Kind(q) = "SINGLE_NOTIFICATION" /\ q.method = "PUT"
    \/ Kind(q) = "ALL_USER_ORDERS" /\ q.method \in {"POST", "GET"}

\* C14: check raises nothing past its boundary for a decision: with an
\* absent caller on a kind whose rule inspects the caller (GET
\* /store/categories, ALL_USERS other than POST, SINGLE_USER, ...) the
\* outcome is the 403, not an exception or a rejected promise.
C14_AbsentCallerIsDeniedNotThrown ==
    \A q \in Requests :
        Decided(q) /\ q.user = undefined /\ InspectsCaller(q)
        => ~q.rejected /\ Denied(q)

----------------------------------------------------------------------------
(* C18 *)

RoleGated(q) ==
    \/ Kind(q) = "ALL_USERS" /\ q.method # "POST"
    \/ Kind(q) \in {"ALL_CATEGORIES", "SINGLE_CATEGORY"}

\* C18: on the role-gated rules (ALL_USERS with a method other than POST,
\* ALL_CATEGORIES, SINGLE_CATEGORY) and a resolved caller: ALLOW iff the
\* caller is an ADMINISTRATOR; CONSUMER, SUPPLIER and TRANSPORTER callers
\* are always denied.
C18_RoleGatedNeedsAdministrator ==
    \A q \in Requests :
        Decided(q) /\ RoleGated(q) /\ q.user # undefined
        => /\ Allowed(q) <=> q.user.type = "ADMINISTRATOR"
           /\ q.user.type \in {"CONSUMER", "SUPPLIER", "TRANSPORTER"}
              => Denied(q)

\* a consumer was denied on the categories
C18_Witness ==
    \E q \in Requests :
        /\ Decided(q)
        /\ Kind(q) = "ALL_CATEGORIES"
        /\ q.user # undefined
        /\ q.user.type = "CONSUMER"
        /\ Denied(q)

----------------------------------------------------------------------------
(* C19 *)

\* C19: ALL_NOTIFICATIONS GET is allowed iff routeParams.userId is the
\* caller's id or the caller is an ADMINISTRATOR; ALL_NOTIFICATIONS PUT
\* and SINGLE_NOTIFICATION PUT are allowed iff routeParams.userId is the
\* caller's id, an administrator who is not the owner being denied; every
\* other method on these kinds is denied.
C19_Notifications ==
    \A q \in Requests :
        Decided(q) /\ Kind(q) \in {"ALL_NOTIFICATIONS", "SINGLE_NOTIFICATION"}
        => IF Kind(q) = "ALL_NOTIFICATIONS" /\ q.method = "GET"
           THEN q.user # undefined
                => /\ Allowed(q) <=> (Owner(q) \/ q.user.type = "ADMINISTRATOR")
                   /\ ~Allowed(q) => Denied(q)
           ELSE IF q.method = "PUT"
           THEN q.user # undefined
                => /\ Allowed(q) <=> Owner(q)
                   /\ ~Allowed(q) => Denied(q)
           ELSE Denied(q)

\* an administrator dismissed the notifications of another user and was
\* denied
C19_Witness ==
    \E q \in Requests :
        /\ Decided(q)
        /\ Kind(q) = "ALL_NOTIFICATIONS"
        /\ q.method = "PUT"
        /\ q.user # undefined
        /\ q.user.type = "ADMINISTRATOR"
        /\ ~Owner(q)
        /\ Denied(q)

----------------------------------------------------------------------------
(* C20 *)

\* C20: on ALL_USER_ORDERS POST is allowed iff routeParams.userId is the
\* caller's id and the caller is a CONSUMER (an administrator cannot
\* create orders for a user); GET is allowed iff routeParams.userId is the
\* caller's id or the caller is an ADMINISTRATOR; every other method is
\* denied.
C20_UserOrders ==
    \A q \in Requests :
        Decided(q) /\ Kind(q) = "ALL_USER_ORDERS"
        => IF q.method = "POST"
           THEN q.user # undefined
                => /\ Allowed(q) <=> (Owner(q) /\ q.user.type = "CONSUMER")
                   /\ ~Allowed(q) => Denied(q)
           ELSE IF q.method = "GET"
           THEN q.user # undefined
                => /\ Allowed(q) <=> (Owner(q) \/ q.user.type = "ADMINISTRATOR")
                   /\ ~Allowed(q) => Denied(q)
           ELSE Denied(q)

\* an administrator created an order for another user and was denied
C20_Witness ==
    \E q \in Requests :
        /\ Decided(q)
        /\ Kind(q) = "ALL_USER_ORDERS"
        /\ q.method = "POST"
        /\ q.user # undefined
        /\ q.user.type = "ADMINISTRATOR"
        /\ Denied(q)

----------------------------------------------------------------------------
(* C17 *)

\* q is a request check is working on: about to be entered, or entered and
\* not over
InCheck(q) ==
    /\ q # Idle
    /\ \/ q.pc = "check"
       \/ q.entered /\ q.pc \notin {"done", "suspended"}

\* C17 as stated: check leaves the caller identity unchanged: for every
\* kind and method req.user (with its type and addresses) is after the
\* evaluation what it was before, and so are the route parameters and the
\* body.
C17_AsStated ==
    [][\A r \in DOMAIN rq :
          InCheck(rq[r]) /\ rq'[r] # Idle
          => /\ rq'[r].user = rq[r].user
             /\ rq'[r].params = rq[r].params
             /\ rq'[r].body = rq[r].body]_vars

\* C17 amended: check leaves req.user unchanged for every kind and method
\* but ALL_USERS POST with body.type = ADMINISTRATOR, where the
\* authentication.check run inside check sets req.user to the record
\* fetched for the token's user; route parameters and body are unchanged
\* in every case.
C17_IdentityUnchangedButAdminCreation ==
    [][\A r \in DOMAIN rq :
          InCheck(rq[r]) /\ rq'[r] # Idle
          => /\ rq'[r].params = rq[r].params
             /\ rq'[r].body = rq[r].body
             /\ \/ rq'[r].user = rq[r].user
                \/ /\ AdminCreation(rq[r])
                   /\ rq[r].pc = "getUserByID"
                   /\ rq'[r].user = rq'[r].retrieved
                   /\ rq'[r].user.id = rq[r].tokenUser.id]_vars

\* a consumer was refused on an address and is still attached to the
\* request, with the addresses fetched for it
C17_Witness ==
    \E q \in Requests :
        /\ Decided(q)
        /\ q.guarded
        /\ Kind(q) = "SINGLE_ADDRESS"
        /\ Denied(q)
        /\ q.user # undefined
        /\ q.user = q.retrieved
        /\ q.user.Address = AddressRows(q.user.id)

----------------------------------------------------------------------------
(* C15 *)

\* authentication.check has attached an identity to q in this request
Authenticated(q) ==
    \/ q.guarded /\ (q.entered \/ q.pc = "check")
    \/ InnerAuthenticationOver(q) /\ q.pc # "suspended"

\* C15: nothing is carried from one request to the next: in a sequence of
\* requests bearing the same token a request starts without identity and
\* without answers, the identity it is decided on is the record (type,
\* addresses) of the identity store as it is during that request, and the
\* relationship checks are called anew, so that a type changed between two
\* requests decides the second one.
C15_NothingCarriedOver ==
    \A q \in Requests :
        /\ q.pc \in {"authentication", "check"} /\ ~q.entered
           => /\ q.orderAnswer = "none" /\ q.itemAnswer = "none"
              /\ q.orderCalls = 0 /\ q.itemCalls = 0
              /\ q.pc = "authentication" => q.user = undefined
        /\ Authenticated(q)
           => /\ q.user.type = store[q.tokenUser.id].type
              /\ q.user.Address = store[q.tokenUser.id].Address
        /\ Decided(q) /\ Authenticated(q) /\ RoleGated(q)
           => (Allowed(q) <=> store[q.tokenUser.id].type = "ADMINISTRATOR")
        /\ Decided(q) /\ Authenticated(q) /\ Kind(q) \in CartOrWishlist
           => (Allowed(q)
               <=> Owner(q) /\ store[q.tokenUser.id].type = "CONSUMER")
        /\ Decided(q) /\ Kind(q) = "SINGLE_ORDER" /\ q.method = "GET"
           => /\ q.orderCalls = 1
              /\ Allowed(q) <=> q.orderAnswer = "true"

\* a request was allowed as an administrator's although an earlier request
\* with the same token had fetched another type for that user
C15_Witness ==
    \E q \in Requests :
        /\ Decided(q) /\ q.guarded /\ RoleGated(q)
        /\ Allowed(q)
        /\ outdated # undefined
        /\ outdated.id = q.tokenUser.id
        /\ outdated.type = "CONSUMER"
        /\ q.user.type = "ADMINISTRATOR"

----------------------------------------------------------------------------
(* C16 *)

\* what check ended in for q
Outcome(q) ==
    IF Allowed(q) THEN "next" ELSE IF q.rejected THEN "throw" ELSE "break"

\* what check ends in for q when q is evaluated alone: on its own method,
\* route parameters and body, on the record of the store for its own
\* token, and on the answers its own relationship checks got
Alone(q) ==
    LET own == [q EXCEPT !.user =
                   IF Authenticated(q)
                   THEN getUserByID(q.tokenUser.id, FALSE) ELSE undefined]
        first == IF AdminCreation(q) THEN ALL_USERS_resumed(own)
                 ELSE Switch(own)
    IN IF first # "await order" THEN first
       ELSE IF "rejects" \in {q.orderAnswer, q.itemAnswer} THEN "throw"
       ELSE IF q.orderAnswer = "false" THEN "break"
       ELSE IF Kind(q) = "SINGLE_ORDER" THEN "next"
       ELSE IF q.itemAnswer = "true" THEN "next" ELSE "break"

\* C16: concurrent requests are decided independently: however several
\* requests interleave at their awaits (identity lookup, order check, item
\* check), the decision of each is the decision it gets when evaluated
\* alone, and the identity it is decided on is that of its own token.
C16_DecidedIndependently ==
    \A q \in Requests :
        /\ Authenticated(q)
           => /\ q.user.id = q.tokenUser.id
              /\ q.user = getUserByID(q.tokenUser.id, FALSE)
        /\ Decided(q) => Outcome(q) = Alone(q)

\* a request was decided while the request of another user was waiting
\* for a relationship check, the global `user` holding the other's record
C16_Witness ==
    \E r1, r2 \in DOMAIN rq :
        /\ r1 # r2
        /\ rq[r1] # Idle /\ rq[r2] # Idle
        /\ Decided(rq[r1]) /\ rq[r1].user # undefined
        /\ rq[r2].pc \in {"order", "item"}
        /\ rq[r2].user # undefined
        /\ rq[r2].user.id # rq[r1].user.id
        /\ user = rq[r2].user

----------------------------------------------------------------------------
(* C21 *)

\* the outcomes q got so far: responses sent, and calls of the next() that
\* leads to the handler of the route
Outcomes(q) == Len(q.responses) + q.nextCalls

\* C21: a request gets at most one outcome across authentication.check and
\* check: never both next() and a response (401, 403, 500), never two
\* responses, the administrator-creation path with authentication.check run
\* inside check included.
C21_AtMostOneOutcome ==
    \A q \in Requests :
        /\ Outcomes(q) <= 1
        /\ Len(q.messages) = Len(q.responses)
        /\ \A i \in 1..Len(q.responses) : q.responses[i] \in {401, 403}

\* authentication.check ran before check and again inside check for an
\* administrator creation, and the second run answered 401
C21_Witness ==
    \E q \in Requests :
        /\ q.guarded /\ q.entered /\ AdminCreation(q)
        /\ q.innerRuns = 1
        /\ q.pc = "suspended"
        /\ q.user # undefined
        /\ q.responses = <<401>>
        /\ q.nextCalls = 0

----------------------------------------------------------------------------
(* C22 *)

\* check was called for the request in slot r and has not completed
Evaluating(r) == rq[r] # Idle /\ rq[r].entered /\ rq[r].pc # "done"

\* check completed for the request in slot r with next() or with its 403
Completed(r) ==
    /\ rq[r] # Idle
    /\ Decided(rq[r])
    /\ Allowed(rq[r]) \/ Denied(rq[r])

\* a relationship check of the request in slot r rejected instead of
\* returning an answer
RelationshipRejected(r) ==
    /\ rq[r] # Idle
    /\ "rejects" \in {rq[r].orderAnswer, rq[r].itemAnswer}

\* C22: every invocation of check eventually completes with next() or a
\* 403, provided every collaborator call eventually returns; in particular
\* the promise around authentication.check in the administrator-creation
\* branch resolves when the token is valid and when it is not (401), so
\* that the evaluation is not suspended forever.
C22_CheckCompletes ==
    \A r \in {1} :
        Evaluating(r) ~> (Completed(r) \/ RelationshipRejected(r))

----------------------------------------------------------------------------
(* C23 *)

\* a request that changes the type of an existing account
TypeChange(q) ==
    /\ q.entered
    /\ Kind(q) = "SINGLE_USER"
    /\ q.method = "PUT"
    /\ hasOwnProperty(q.body, "type")

\* the caller of q is an administrator by the record authentication.check
\* fetched from the identity store during q
FetchedAdministrator(q) ==
    /\ Authenticated(q)
    /\ q.tokenUser # false
    /\ q.user \notin {undefined, null}
    /\ q.user = getUserByID(q.tokenUser.id, FALSE)
    /\ q.user.type = "ADMINISTRATOR"

Administrators(s) == {i \in DOMAIN s : s[i].type = "ADMINISTRATOR"}

\* a passed request for an administrator account or for a type change has
\* an administrator as its caller
PassedByAdministrator ==
    \A q \in Requests :
        Allowed(q) /\ (AdminCreation(q) \/ TypeChange(q))
        => FetchedAdministrator(q)

\* C23: no privilege escalation through the gate: over any sequence of
\* requests, an ALL_USERS POST with body.type = ADMINISTRATOR or a
\* SINGLE_USER PUT with a type field is passed on only when the caller's
\* type, as fetched from the identity store in that request, is
\* ADMINISTRATOR; so the set of administrator accounts grows only by a
\* request of an administrator.
C23_NoPrivilegeEscalation ==
    [][/\ PassedByAdministrator'
       /\ ~(Administrators(store') \subseteq Administrators(store))
          => \E q \in Requests :
                /\ Allowed(q)
                /\ AdminCreation(q) \/ TypeChange(q)
                /\ FetchedAdministrator(q)]_vars

\* the administrator account made by an administrator's request has in
\* turn had a type change passed
C23_Witness ==
    /\ NextUserId \in DOMAIN store
    /\ store[NextUserId].type = "ADMINISTRATOR"
    /\ \E q \in Requests :
        /\ TypeChange(q)
        /\ Allowed(q)
        /\ q.tokenUser = [id |-> NextUserId]
        /\ \E i \in UserIds : LooseEquals(q.params["userId"], i)

====
